---- MODULE Spec2Model ----
(***************************************************************************)
(* Variable-load traffic simulator (sample-apps/3-variable-load).          *)
(* The module globals, the worker manager thread (manage_workers), the     *)
(* target computation (calculate_target_workers) and the Flask handlers    *)
(* POST /config and POST /pattern/<name>.                                  *)
(*                                                                         *)
(* Three specifications share the definitions below:                       *)
(*   Spec      every handler and every manager iteration is one step;      *)
(*   SpecRace  the target computation is split at each read of a module    *)
(*             global, so a request may land between two reads;            *)
(*   SpecCalc  calculate_target_workers alone, applied to inputs drawn     *)
(*             from bounded sets at consecutive elapsed seconds;           *)
(*   SpecHttp  the two handlers alone, each step keeping the request it    *)
(*             answered beside the response.                               *)
(***************************************************************************)
EXTENDS Integers, Sequences, FiniteSets, TLC

VARIABLES
    PATTERN_MODE,        \* module global, line 28
    BASE_LOAD,           \* module global, line 30
    MAX_LOAD,            \* module global, line 31
    CYCLE_DURATION,      \* module global, line 32
    ENABLED_,            \* module global ENABLED, line 34 (ENABLED is a TLA+ keyword)
    workers,             \* module global, line 51: sequence of threads [id, alive]
    stop_event,          \* module global, line 52
    current_load_level,  \* module global, line 53
    manual_workers,      \* module global, line 54
    pc,                  \* where the manager thread stands
    elapsed,             \* manage_workers local, line 140
    target,              \* manage_workers local, line 141
    mode,                \* calculate_target_workers argument
    cycle_rem,           \* cycle_time % CYCLE_DURATION, first half of line 103
    position,            \* line 103, as an index in PhaseSteps-ths of a cycle
    load_factor,         \* line 108 / 123, in units of 1/Scale
    base_read,           \* first BASE_LOAD operand of line 110 / 119 / 125
    max_read,            \* MAX_LOAD operand of line 110 / 119 / 125
    response,            \* HTTP status of the last request handled (0: none yet)
    request,             \* SpecHttp: the request that response answers
    \* 2-memory-intensive/app/main.py
    ENABLED_memory,      \* module global ENABLED, line 31
    KEEP_IN_MEMORY,      \* module global, lines 32-33
    processed_data,      \* module global, line 51: the number of records held
    processing_active,   \* module global, line 52
    batches_processed,   \* Counter, lines 42-43
    processor_pc         \* where the background_processor thread stands

config == <<PATTERN_MODE, BASE_LOAD, MAX_LOAD, CYCLE_DURATION, manual_workers>>
frame  == <<mode, cycle_rem, position, load_factor, base_read, max_read>>
\* The state of the memory-intensive app, which no step of the variable-load
\* app touches, and the other way round.
memory_app == <<ENABLED_memory, KEEP_IN_MEMORY, processed_data, processing_active,
                batches_processed, processor_pc>>
variable_load_app ==
    <<PATTERN_MODE, BASE_LOAD, MAX_LOAD, CYCLE_DURATION, ENABLED_, workers,
      stop_event, current_load_level, manual_workers, pc, elapsed, target,
      mode, cycle_rem, position, load_factor, base_read, max_read, response,
      request>>
vars   == <<PATTERN_MODE, BASE_LOAD, MAX_LOAD, CYCLE_DURATION, ENABLED_, workers,
            stop_event, current_load_level, manual_workers, pc, elapsed, target,
            mode, cycle_rem, position, load_factor, base_read, max_read, response,
            request, ENABLED_memory, KEEP_IN_MEMORY, processed_data,
            processing_active, batches_processed, processor_pc>>

(***************************************************************************)
(* Bounds and input sets.                                                  *)
(***************************************************************************)
\* Largest elapsed second the manager's clock shows in Spec and SpecRace.
MaxElapsed == 3
\* Largest elapsed second in SpecCalc (beyond one full default cycle).
MaxElapsedCalc == 125
\* Largest number of fields present in one POST /config body.
MaxFields == 2

ValidPatterns == {"wave", "spike", "random", "manual"}
\* "burst" stands for any string that is not a valid pattern.
ModeVals == ValidPatterns \cup {"burst"}
BaseVals == {0, 1}
MaxVals == {0, 2}
CycleVals == {0, 4}
WorkerVals == {3}
\* SpecCalc: the defaults of lines 30-32 and small loads around them.
CalcLoads == {10, 13, 50}
CalcCycles == {4, 20, 120}

(***************************************************************************)
(* Arithmetic.  Python floats are modelled in fixed point: a load factor   *)
(* is an integer number of 1/Scale.  The tables hold, for each phase       *)
(* k/PhaseSteps, what CPython's double arithmetic yields on line 108 and   *)
(* line 109; WaveTarget and FactorLevel reproduce lines 109, 110, 124 and  *)
(* 125 on every input the specifications draw.                             *)
(***************************************************************************)
Scale == 2097152
PhaseSteps == 120

\* int(x) for x = n/d, d > 0: truncation toward zero.
TruncDiv(n, d) == IF n >= 0 THEN n \div d ELSE -((-n) \div d)

Max(a, b) == IF a >= b THEN a ELSE b

\* (math.sin(position * 2 * math.pi) + 1) / 2 at position = k/120, k = 0..119.
WaveFactor ==
    <<
        1048576, 1103455, 1158183, 1212609, 1266587, 1319967, 1372603, 1424353,
        1475071, 1524619, 1572864, 1619671, 1664913, 1708467, 1750211, 1790031,
        1827819, 1863473, 1896891, 1927985, 1956669, 1982865, 2006497, 2027507,
        2045831, 2061423, 2074239, 2084243, 2091407, 2095715, 2097152, 2095715,
        2091407, 2084243, 2074239, 2061423, 2045831, 2027507, 2006497, 1982865,
        1956669, 1927985, 1896891, 1863473, 1827819, 1790031, 1750211, 1708467,
        1664913, 1619671, 1572864, 1524619, 1475071, 1424353, 1372603, 1319967,
        1266587, 1212609, 1158183, 1103455, 1048577,  993697,  938969,  884543,
         830565,  777185,  724549,  672799,  622081,  572533,  524288,  477481,
         432239,  388685,  346941,  307121,  269333,  233679,  200261,  169167,
         140483,  114287,   90655,   69645,   51321,   35729,   22913,   12909,
           5745,    1437,        0,    1437,    5745,   12909,   22913,   35729,
          51321,   69645,   90655,  114287,  140483,  169167,  200261,  233679,
         269333,  307121,  346941,  388685,  432239,  477481,  524287,  572533,
         622081,  672799,  724549,  777185,  830565,  884543,  938969,  993697
    >>

\* int(load_factor * 100) at position = k/120, k = 0..119.
WaveLevel ==
    <<
         50,  52,  55,  57,  60,  62,  65,  67,
         70,  72,  75,  77,  79,  81,  83,  85,
         87,  88,  90,  91,  93,  94,  95,  96,
         97,  98,  98,  99,  99,  99, 100,  99,
         99,  99,  98,  98,  97,  96,  95,  94,
         93,  91,  90,  88,  87,  85,  83,  81,
         79,  77,  75,  72,  70,  67,  65,  62,
         60,  57,  55,  52,  50,  47,  44,  42,
         39,  37,  34,  32,  29,  27,  24,  22,
         20,  18,  16,  14,  12,  11,   9,   8,
          6,   5,   4,   3,   2,   1,   1,   0,
          0,   0,   0,   0,   0,   0,   1,   1,
          2,   3,   4,   5,   6,   8,   9,  11,
         12,  14,  16,  18,  20,  22,  24,  27,
         29,  32,  34,  37,  39,  42,  44,  47
    >>

\* PhaseIndex as it would be if line 103 did not divide by CYCLE_DURATION.
PhaseIndexUnscaled(a, c) == a

\* position = a / c for 0 <= a < c and c a divisor of PhaseSteps.
PhaseIndex(a, c) == (a * PhaseSteps) \div c

\* position < 0.1 or (0.5 <= position < 0.6), position = a / c, c > 0.
SpikeHigh(a, c) == 10 * a < c \/ (2 * a >= c /\ 10 * a < 6 * c)

\* WaveTarget as it would be if line 110 read BASE_LOAD + MAX_LOAD * load_factor.
WaveTargetUnscaled(b1, m, b2, f) == TruncDiv(b1 * Scale + m * f, Scale)

\* WaveTarget as it would be if line 110 interpolated downward from MAX_LOAD.
WaveTargetInverted(b1, m, b2, f) == TruncDiv(m * Scale - (m - b2) * f, Scale)

\* int(BASE_LOAD + (MAX_LOAD - BASE_LOAD) * load_factor); b1 and b2 are the
\* two reads of BASE_LOAD.
WaveTarget(b1, m, b2, f) == TruncDiv(b1 * Scale + (m - b2) * f, Scale)

\* int(load_factor * 100)
FactorLevel(f) == (f * 100) \div Scale

\* SpikeLowTarget as it would be if line 119 used round() for int():
\* BASE_LOAD + round((MAX_LOAD - BASE_LOAD) * 0.2), halves away from zero.
SpikeLowTargetRounded(b1, m, b2) ==
    b1 + TruncDiv(2 * (m - b2) + (IF m >= b2 THEN 5 ELSE -5), 10)

\* BASE_LOAD + int((MAX_LOAD - BASE_LOAD) * 0.2)
SpikeLowTarget(b1, m, b2) == b1 + TruncDiv(m - b2, 5)

\* random.random(): representatives 0.0, 0.5 and 1 - 2^-20.
RandomFactors == {0, Scale \div 2, Scale - 2}

(***************************************************************************)
(* JSON values of a POST /config body and int() of them.                   *)
(***************************************************************************)
Absent == <<"absent", 0>>
JInt(n) == <<"int", n>>             \* a JSON integer
JFloat(tenths) == <<"float", tenths>>   \* a JSON number with one decimal
JNumStr(n) == <<"numstr", n>>       \* a JSON string holding the digits of n
JText == <<"text", 0>>              \* a JSON string int() rejects (ValueError)
JMode(s) == <<"mode", s>>           \* a JSON string used as pattern_mode

Present(v) == v[1] # "absent"
\* int(v) raises ValueError
Rejects(v) == v[1] = "text"
\* int(v) when it does not raise
IntOf(v) == IF v[1] = "float" THEN TruncDiv(v[2], 10) ELSE v[2]

Fields == {"pattern_mode", "base_load", "max_load", "cycle_duration", "workers"}

EmptyBody == [f \in Fields |-> Absent]

ConfigBodies ==
    { b \in [ pattern_mode   : {Absent, JMode("manual"), JMode("burst")},
              base_load      : {Absent, JInt(0), JNumStr(1), JText},
              max_load       : {Absent, JInt(0), JFloat(25), JText},
              cycle_duration : {Absent, JInt(0), JInt(4), JText},
              workers        : {Absent, JInt(3), JText} ] :
        Cardinality({f \in Fields : Present(b[f])}) <= MaxFields }

(***************************************************************************)
(* The worker pool.                                                        *)
(***************************************************************************)
\* len([w for w in workers if w.is_alive()])
AliveCount(pool) == Cardinality({i \in 1..Len(pool) : pool[i].alive})

\* Lines 147-154: iteration i of the loop starts a thread with
\* args=(len(workers) + i,) and appends it; len(workers) is read at each
\* iteration.  A started thread is alive.
RECURSIVE SpawnLoop(_, _, _)
SpawnLoop(pool, i, n) ==
    IF i >= n THEN pool
    ELSE SpawnLoop(Append(pool, [id |-> Len(pool) + i, alive |-> TRUE]), i + 1, n)

\* Reconcile as it would be if line 147 read range(target).
ReconcileSpawnsTarget(pool, t) ==
    IF t > AliveCount(pool) THEN SpawnLoop(pool, 0, t) ELSE pool

\* Reconcile as it would be if lines 158-162 dropped the surplus workers.
ReconcileDropsSurplus(pool, t) ==
    LET current == AliveCount(pool) IN
    IF t > current THEN SpawnLoop(pool, 0, t - current)
    ELSE IF t < current THEN SubSeq(pool, 1, Max(t, 0)) ELSE pool

\* Reconcile as it would be if lines 158-162 stopped the surplus workers.
ReconcileStopsSurplus(pool, t) ==
    LET current == AliveCount(pool) IN
    IF t > current THEN SpawnLoop(pool, 0, t - current)
    ELSE [i \in 1..Len(pool) |-> [pool[i] EXCEPT !.alive = pool[i].alive /\ i <= t]]

\* Lines 142-162: the pool after reconciling toward target t.
Reconcile(pool, t) ==
    LET current == AliveCount(pool) IN
    IF t > current THEN SpawnLoop(pool, 0, t - current) ELSE pool

(***************************************************************************)
(* calculate_target_workers, lines 95-128, on one snapshot of the globals. *)
(* rf is the value random.random() returns if it is called.                *)
(***************************************************************************)
\* Line 103 raises ZeroDivisionError.
CalcRaises(m, c) == m # "manual" /\ c = 0

\* CalcTarget as it would be if line 100 clamped manual_workers to
\* [BASE_LOAD, MAX_LOAD].
CalcTargetClampsManual(m, cycle_time, rf) ==
    IF m = "manual"
    THEN Max(BASE_LOAD, IF manual_workers < MAX_LOAD THEN manual_workers ELSE MAX_LOAD)
    ELSE LET a == cycle_time % CYCLE_DURATION
             k == PhaseIndex(a, CYCLE_DURATION)
         IN  CASE m = "wave" -> WaveTarget(BASE_LOAD, MAX_LOAD, BASE_LOAD, WaveFactor[k + 1])
               [] m = "spike" -> IF SpikeHigh(a, CYCLE_DURATION) THEN MAX_LOAD
                                 ELSE SpikeLowTarget(BASE_LOAD, MAX_LOAD, BASE_LOAD)
               [] m = "random" -> WaveTarget(BASE_LOAD, MAX_LOAD, BASE_LOAD, rf)
               [] OTHER -> BASE_LOAD

CalcTarget(m, cycle_time, rf) ==
    IF m = "manual" THEN manual_workers
    ELSE LET a == cycle_time % CYCLE_DURATION
             k == PhaseIndex(a, CYCLE_DURATION)
         IN  CASE m = "wave" -> WaveTarget(BASE_LOAD, MAX_LOAD, BASE_LOAD, WaveFactor[k + 1])
               [] m = "spike" -> IF SpikeHigh(a, CYCLE_DURATION) THEN MAX_LOAD
                                 ELSE SpikeLowTarget(BASE_LOAD, MAX_LOAD, BASE_LOAD)
               [] m = "random" -> WaveTarget(BASE_LOAD, MAX_LOAD, BASE_LOAD, rf)
               [] OTHER -> BASE_LOAD

\* CalcLevel as it would be if lines 100 and 128 reset the load level.
CalcLevelResetsOther(m, cycle_time, rf) ==
    IF m = "manual" THEN 0
    ELSE LET a == cycle_time % CYCLE_DURATION
             k == PhaseIndex(a, CYCLE_DURATION)
         IN  CASE m = "wave" -> WaveLevel[k + 1]
               [] m = "spike" -> IF SpikeHigh(a, CYCLE_DURATION) THEN 100 ELSE 20
               [] m = "random" -> FactorLevel(rf)
               [] OTHER -> 0

CalcLevel(m, cycle_time, rf) ==
    IF m = "manual" THEN current_load_level
    ELSE LET a == cycle_time % CYCLE_DURATION
             k == PhaseIndex(a, CYCLE_DURATION)
         IN  CASE m = "wave" -> WaveLevel[k + 1]
               [] m = "spike" -> IF SpikeHigh(a, CYCLE_DURATION) THEN 100 ELSE 20
               [] m = "random" -> FactorLevel(rf)
               [] OTHER -> current_load_level

(***************************************************************************)
(* Spec: the manager thread, one loop iteration per step.                  *)
(***************************************************************************)
\* Lines 137-174 with ENABLED true; e is the clock reading of line 140, an
\* input of the step.  An exception of line 141 is caught at line 176 and
\* nothing has changed.
Tick(e, rf) ==
    /\ ~stop_event
    /\ ENABLED_
    /\ IF CalcRaises(PATTERN_MODE, CYCLE_DURATION)
       THEN UNCHANGED <<target, workers, current_load_level>>
       ELSE /\ target' = CalcTarget(PATTERN_MODE, e, rf)
            /\ current_load_level' = CalcLevel(PATTERN_MODE, e, rf)
            /\ workers' = Reconcile(workers, target')
    /\ UNCHANGED <<config, ENABLED_, memory_app, stop_event, pc, elapsed, frame, response, request>>

\* TickDisabled as it would be if line 139 did not test ENABLED for the
\* fallback target BASE_LOAD.
TickDisabledReconciles ==
    /\ ~stop_event
    /\ ~ENABLED_
    /\ target' = BASE_LOAD
    /\ workers' = Reconcile(workers, BASE_LOAD)
    /\ UNCHANGED <<config, ENABLED_, memory_app, stop_event, current_load_level, pc, elapsed, frame,
                   response, request>>

\* Lines 137-174 with ENABLED false: only the psutil gauges and the sleep.
TickDisabled ==
    /\ ~stop_event
    /\ ~ENABLED_
    /\ UNCHANGED vars

(***************************************************************************)
(* The HTTP handlers; a handler runs as one step.                          *)
(***************************************************************************)
\* Lines 231-249: the fields are applied in this order; int() of a rejected
\* value raises, the fields before it are already assigned, and Flask
\* answers 500.
FieldOrder == <<"pattern_mode", "base_load", "max_load", "cycle_duration", "workers">>

\* Position in FieldOrder of the first field whose int() raises; 6 if none.
FirstRejected(b) ==
    LET bad == {i \in 2..5 : Present(b[FieldOrder[i]]) /\ Rejects(b[FieldOrder[i]])}
    IN  IF bad = {} THEN 6 ELSE CHOOSE i \in bad : \A j \in bad : i <= j

\* Field number i of body b is assigned.
Applies(b, i) == Present(b[FieldOrder[i]]) /\ i < FirstRejected(b)

\* UpdateConfig as it would be if every value were coerced before the first
\* assignment: a rejected value leaves all five globals alone.
UpdateConfigCoercesFirst(b) ==
    LET ok == FirstRejected(b) = 6 IN
    /\ PATTERN_MODE' = IF ok /\ Present(b.pattern_mode) THEN b.pattern_mode[2]
                       ELSE PATTERN_MODE
    /\ BASE_LOAD' = IF ok /\ Present(b.base_load) THEN IntOf(b.base_load) ELSE BASE_LOAD
    /\ MAX_LOAD' = IF ok /\ Present(b.max_load) THEN IntOf(b.max_load) ELSE MAX_LOAD
    /\ CYCLE_DURATION' = IF ok /\ Present(b.cycle_duration) THEN IntOf(b.cycle_duration)
                         ELSE CYCLE_DURATION
    /\ manual_workers' = IF ok /\ Present(b.workers) THEN IntOf(b.workers)
                         ELSE manual_workers
    /\ response' = IF ok THEN 200 ELSE 500
    /\ UNCHANGED <<ENABLED_, memory_app, workers, stop_event, current_load_level, pc, elapsed,
                   target, frame>>

\* UpdateConfig as it would be if line 236 also reset manual_workers to
\* the new BASE_LOAD.
UpdateConfigResetsManual(b) ==
    /\ PATTERN_MODE' = IF Applies(b, 1) THEN b.pattern_mode[2] ELSE PATTERN_MODE
    /\ BASE_LOAD' = IF Applies(b, 2) THEN IntOf(b.base_load) ELSE BASE_LOAD
    /\ MAX_LOAD' = IF Applies(b, 3) THEN IntOf(b.max_load) ELSE MAX_LOAD
    /\ CYCLE_DURATION' = IF Applies(b, 4) THEN IntOf(b.cycle_duration) ELSE CYCLE_DURATION
    /\ manual_workers' = IF Applies(b, 5) THEN IntOf(b.workers)
                         ELSE IF Applies(b, 2) THEN IntOf(b.base_load)
                         ELSE manual_workers
    /\ response' = IF FirstRejected(b) = 6 THEN 200 ELSE 500
    /\ UNCHANGED <<ENABLED_, memory_app, workers, stop_event, current_load_level, pc, elapsed,
                   target, frame>>

UpdateConfig(b) ==
    /\ PATTERN_MODE' = IF Applies(b, 1) THEN b.pattern_mode[2] ELSE PATTERN_MODE
    /\ BASE_LOAD' = IF Applies(b, 2) THEN IntOf(b.base_load) ELSE BASE_LOAD
    /\ MAX_LOAD' = IF Applies(b, 3) THEN IntOf(b.max_load) ELSE MAX_LOAD
    /\ CYCLE_DURATION' = IF Applies(b, 4) THEN IntOf(b.cycle_duration) ELSE CYCLE_DURATION
    /\ manual_workers' = IF Applies(b, 5) THEN IntOf(b.workers) ELSE manual_workers
    /\ response' = IF FirstRejected(b) = 6 THEN 200 ELSE 500
    /\ UNCHANGED <<ENABLED_, memory_app, workers, stop_event, current_load_level, pc, elapsed,
                   target, frame>>

\* SetPattern as it would be if line 279 ran before the check of line 272.
SetPatternAssignsFirst(name) ==
    /\ PATTERN_MODE' = name
    /\ response' = IF name \notin ValidPatterns THEN 400 ELSE 200
    /\ UNCHANGED <<BASE_LOAD, MAX_LOAD, CYCLE_DURATION, manual_workers, ENABLED_, memory_app,
                   workers, stop_event, current_load_level, pc, elapsed, target, frame>>

\* Lines 265-287.
SetPattern(name) ==
    /\ IF name \notin ValidPatterns
       THEN /\ response' = 400
            /\ UNCHANGED PATTERN_MODE
       ELSE /\ PATTERN_MODE' = name
            /\ response' = 200
    /\ UNCHANGED <<BASE_LOAD, MAX_LOAD, CYCLE_DURATION, manual_workers, ENABLED_, memory_app,
                   workers, stop_event, current_load_level, pc, elapsed, target, frame>>

NoRequest == [endpoint |-> "none", body |-> EmptyBody, name |-> ""]
ConfigRequest(b) == [endpoint |-> "config", body |-> b, name |-> ""]
PatternRequest(n) == [endpoint |-> "pattern", body |-> EmptyBody, name |-> n]

(***************************************************************************)
(* Initial state: the module globals after import (lines 28-54), the       *)
(* environment drawn from the input sets.                                  *)
(***************************************************************************)
\* Lines 31-52 of the memory-intensive app with the default environment.
InitMemoryApp ==
    /\ ENABLED_memory = TRUE
    /\ KEEP_IN_MEMORY = TRUE
    /\ processed_data = 0
    /\ processing_active = FALSE
    /\ batches_processed = 0
    /\ processor_pc = "loop"

InitFrame ==
    /\ pc = "idle"
    /\ elapsed = 0
    /\ target = 0
    /\ mode = "wave"
    /\ cycle_rem = 0
    /\ position = 0
    /\ load_factor = 0
    /\ base_read = 0
    /\ max_read = 0

Init ==
    /\ PATTERN_MODE \in ModeVals
    /\ BASE_LOAD \in BaseVals
    /\ MAX_LOAD \in MaxVals
    /\ CYCLE_DURATION \in CycleVals
    /\ ENABLED_ \in BOOLEAN
    /\ workers = <<>>
    /\ stop_event = FALSE
    /\ current_load_level = 0
    /\ manual_workers = BASE_LOAD
    /\ response = 0
    /\ request = NoRequest
    /\ InitFrame
    /\ InitMemoryApp

\* Spec does not keep the request.
PostConfig(b) == UpdateConfig(b) /\ UNCHANGED request
PostPattern(name) == SetPattern(name) /\ UNCHANGED request

Next ==
    \/ \E e \in 0..MaxElapsed, rf \in RandomFactors : Tick(e, rf)
    \/ TickDisabled
    \/ \E b \in ConfigBodies : PostConfig(b)
    \/ \E name \in ModeVals : PostPattern(name)

Spec == Init /\ [][Next]_vars

(***************************************************************************)
(* SpecHttp: the handlers alone.  A request may arrive at any time, so the *)
(* initial states are the configurations of the input sets with the pool   *)
(* either still empty or grown by one iteration to two workers at load     *)
(* level 100 (wave at a quarter cycle or a spike, MAX_LOAD = 2).           *)
(***************************************************************************)
InitHttp ==
    /\ PATTERN_MODE \in ModeVals
    /\ BASE_LOAD \in BaseVals
    /\ MAX_LOAD \in MaxVals
    /\ CYCLE_DURATION \in CycleVals
    /\ manual_workers \in BaseVals \cup WorkerVals
    /\ \/ /\ ENABLED_ = FALSE
          /\ workers = <<>>
          /\ target = 0
          /\ current_load_level = 0
       \/ /\ ENABLED_ = TRUE
          /\ workers = Reconcile(<<>>, 2)
          /\ target = 2
          /\ current_load_level = 100
    /\ stop_event = FALSE
    /\ response = 0
    /\ request = NoRequest
    /\ pc = "idle"
    /\ elapsed = 0
    /\ mode = "wave"
    /\ cycle_rem = 0
    /\ position = 0
    /\ load_factor = 0
    /\ base_read = 0
    /\ max_read = 0
    /\ InitMemoryApp

HttpConfig(b) == UpdateConfig(b) /\ request' = ConfigRequest(b)
HttpPattern(name) == SetPattern(name) /\ request' = PatternRequest(name)

NextHttp ==
    \/ \E b \in ConfigBodies : HttpConfig(b)
    \/ \E name \in ModeVals : HttpPattern(name)

SpecHttp == InitHttp /\ [][NextHttp]_vars

(***************************************************************************)
(* SpecCalc: calculate_target_workers (lines 95-128) alone.  The globals   *)
(* it reads are drawn from the input sets and stay fixed; it is applied at *)
(* elapsed 0 and then at each following second, as a manager whose         *)
(* iterations are one second apart would call it.                          *)
(***************************************************************************)
CalcManual == {7}
CalcLevels == {0, 100}

InitCalc ==
    /\ PATTERN_MODE \in ModeVals
    /\ BASE_LOAD \in CalcLoads
    /\ MAX_LOAD \in CalcLoads
    /\ CYCLE_DURATION \in CalcCycles
    /\ manual_workers \in CalcManual
    /\ current_load_level \in CalcLevels
    /\ ENABLED_ = TRUE
    /\ workers = <<>>
    /\ stop_event = FALSE
    /\ response = 0
    /\ request = NoRequest
    /\ pc = "start"
    /\ elapsed = 0
    /\ target = 0
    /\ mode = PATTERN_MODE
    /\ cycle_rem = 0
    /\ position = 0
    /\ load_factor = 0
    /\ base_read = 0
    /\ max_read = 0
    /\ InitMemoryApp

\* target = calculate_target_workers(PATTERN_MODE, elapsed), line 141.
CalcApply(e, rf) ==
    /\ elapsed' = e
    /\ target' = CalcTarget(mode, e, rf)
    /\ current_load_level' = CalcLevel(mode, e, rf)
    /\ pc' = "returned"
    /\ UNCHANGED <<config, ENABLED_, memory_app, workers, stop_event, frame, response, request>>

CalcFirst(rf) == pc = "start" /\ CalcApply(elapsed, rf)

CalcLater(rf) == pc = "returned" /\ elapsed < MaxElapsedCalc /\ CalcApply(elapsed + 1, rf)

NextCalc ==
    \/ \E rf \in RandomFactors : CalcFirst(rf)
    \/ \E rf \in RandomFactors : CalcLater(rf)

SpecCalc == InitCalc /\ [][NextCalc]_vars

(***************************************************************************)
(* SpecRace: the manager iteration split at each read of a module global.  *)
(* The handlers run in other threads, so a request may be handled between  *)
(* any two steps.  A step holds at most one access to a global that a      *)
(* handler writes, together with the local computation around it.  Locals  *)
(* that are dead are reset, so that states differing only in dead values   *)
(* coincide.                                                               *)
(***************************************************************************)
\* The requests of SpecRace: one numeric field each, and the valid patterns.
RaceBodies ==
    { b \in ConfigBodies :
        /\ Cardinality({f \in Fields : Present(b[f])}) = 1
        /\ ~Present(b.pattern_mode) /\ ~Present(b.workers)
        /\ \A f \in Fields : ~Rejects(b[f]) }

ResetFrame ==
    /\ mode' = "wave"
    /\ cycle_rem' = 0
    /\ position' = 0
    /\ load_factor' = 0
    /\ base_read' = 0
    /\ max_read' = 0

\* Lines 140-141: the clock is read and PATTERN_MODE is passed as mode.
RaceBegin(e) ==
    /\ pc = "idle"
    /\ ~stop_event
    /\ ENABLED_
    /\ elapsed' = e
    /\ mode' = PATTERN_MODE
    /\ pc' = "call"
    /\ UNCHANGED <<config, ENABLED_, memory_app, workers, stop_event, current_load_level, target,
                   cycle_rem, position, load_factor, base_read, max_read, response,
                   request>>

\* Lines 99-100.
RaceManual ==
    /\ pc = "call"
    /\ mode = "manual"
    /\ target' = manual_workers
    /\ pc' = "reconcile"
    /\ UNCHANGED <<config, ENABLED_, memory_app, workers, stop_event, current_load_level, elapsed,
                   frame, response, request>>

\* Line 103, cycle_time % CYCLE_DURATION; ZeroDivisionError is caught at
\* line 176 and the iteration ends.
RaceMod ==
    /\ pc = "call"
    /\ mode # "manual"
    /\ IF CYCLE_DURATION = 0
       THEN /\ pc' = "idle"
            /\ elapsed' = 0
            /\ ResetFrame
       ELSE /\ cycle_rem' = elapsed % CYCLE_DURATION
            /\ pc' = "div"
            /\ elapsed' = 0
            /\ UNCHANGED <<mode, position, load_factor, base_read, max_read>>
    /\ UNCHANGED <<config, ENABLED_, memory_app, workers, stop_event, current_load_level, target,
                   response, request>>

\* Line 103, the division by CYCLE_DURATION read again, and the branch on
\* mode down to the next read of a global: lines 105-109, 112-118, 121-124.
RaceDiv(rf) ==
    /\ pc = "div"
    /\ IF CYCLE_DURATION = 0
       THEN /\ pc' = "idle"
            /\ ResetFrame
            /\ UNCHANGED current_load_level
       ELSE LET k == PhaseIndex(cycle_rem, CYCLE_DURATION) IN
            /\ position' = k
            /\ cycle_rem' = 0
            /\ UNCHANGED <<mode, base_read, max_read>>
            /\ CASE mode = "wave" ->
                       /\ load_factor' = WaveFactor[k + 1]
                       /\ current_load_level' = WaveLevel[k + 1]
                       /\ pc' = "base1"
                 [] mode = "spike" /\ SpikeHigh(cycle_rem, CYCLE_DURATION) ->
                       /\ current_load_level' = 100
                       /\ pc' = "ret_max"
                       /\ UNCHANGED load_factor
                 [] mode = "spike" /\ ~SpikeHigh(cycle_rem, CYCLE_DURATION) ->
                       /\ current_load_level' = 20
                       /\ pc' = "base1"
                       /\ UNCHANGED load_factor
                 [] mode = "random" ->
                       /\ load_factor' = rf
                       /\ current_load_level' = FactorLevel(rf)
                       /\ pc' = "base1"
                 [] OTHER ->
                       /\ pc' = "ret_base"
                       /\ UNCHANGED <<load_factor, current_load_level>>
    /\ UNCHANGED <<config, ENABLED_, memory_app, workers, stop_event, elapsed, target, response,
                   request>>

\* Line 116: return MAX_LOAD.
RaceReturnMax ==
    /\ pc = "ret_max"
    /\ target' = MAX_LOAD
    /\ pc' = "reconcile"
    /\ UNCHANGED <<config, ENABLED_, memory_app, workers, stop_event, current_load_level, elapsed,
                   frame, response, request>>

\* Line 128: return BASE_LOAD.
RaceReturnBase ==
    /\ pc = "ret_base"
    /\ target' = BASE_LOAD
    /\ pc' = "reconcile"
    /\ UNCHANGED <<config, ENABLED_, memory_app, workers, stop_event, current_load_level, elapsed,
                   frame, response, request>>

\* Lines 110, 119, 125: the operands are read left to right, BASE_LOAD,
\* MAX_LOAD, BASE_LOAD.
RaceBase1 ==
    /\ pc = "base1"
    /\ base_read' = BASE_LOAD
    /\ pc' = "max"
    /\ UNCHANGED <<config, ENABLED_, memory_app, workers, stop_event, current_load_level, elapsed,
                   target, mode, cycle_rem, position, load_factor, max_read, response,
                   request>>

RaceMax ==
    /\ pc = "max"
    /\ max_read' = MAX_LOAD
    /\ pc' = "base2"
    /\ UNCHANGED <<config, ENABLED_, memory_app, workers, stop_event, current_load_level, elapsed,
                   target, mode, cycle_rem, position, load_factor, base_read, response,
                   request>>

RaceBase2 ==
    /\ pc = "base2"
    /\ target' = IF mode = "spike"
                 THEN SpikeLowTarget(base_read, max_read, BASE_LOAD)
                 ELSE WaveTarget(base_read, max_read, BASE_LOAD, load_factor)
    /\ pc' = "reconcile"
    /\ UNCHANGED <<config, ENABLED_, memory_app, workers, stop_event, current_load_level, elapsed,
                   frame, response, request>>

\* Lines 142-174: only the manager thread touches workers.
RaceReconcile ==
    /\ pc = "reconcile"
    /\ workers' = Reconcile(workers, target)
    /\ pc' = "idle"
    /\ target' = 0
    /\ ResetFrame
    /\ UNCHANGED <<config, ENABLED_, memory_app, stop_event, current_load_level, elapsed, response,
                   request>>

\* The environment of SpecRace: any pattern, BASE_LOAD 1, MAX_LOAD 2,
\* CYCLE_DURATION 4, ENABLED true.
InitRace ==
    /\ Init
    /\ ENABLED_
    /\ BASE_LOAD = 1
    /\ MAX_LOAD = 2
    /\ CYCLE_DURATION = 4

NextRace ==
    \/ \E e \in 0..MaxElapsed : RaceBegin(e)
    \/ RaceManual
    \/ RaceMod
    \/ \E rf \in RandomFactors : RaceDiv(rf)
    \/ RaceReturnMax
    \/ RaceReturnBase
    \/ RaceBase1
    \/ RaceMax
    \/ RaceBase2
    \/ RaceReconcile
    \/ \E b \in RaceBodies : PostConfig(b)
    \/ \E name \in ValidPatterns : PostPattern(name)

SpecRace == InitRace /\ [][NextRace]_vars

(***************************************************************************)
(* SpecLoop: the two loops of the variable-load app and their ends.  The   *)
(* manager thread stands at the test of line 137 ("idle"), inside the try  *)
(* block ("tick"), in the sleep of line 174 ("sleep"), in the handler of   *)
(* lines 176-178 ("except"), or has left the loop ("exited").  A worker    *)
(* thread is alive from start() until worker_task returns.  No line of the *)
(* repository calls stop_event.set(); SetStop is the stop signal of the    *)
(* specification's section 5, given from outside.  Every thread that can   *)
(* run eventually does, and every sleep ends: weak fairness on the steps   *)
(* of the manager and on the exit of a worker.                             *)
(***************************************************************************)
\* Line 137: while not stop_event.is_set().
ManagerContinues(flag) == ~flag

\* WorkerContinues as it would be if line 71 read while True.
WorkerIgnoresStop(flag) == TRUE

\* Line 71: while not stop_event.is_set().
WorkerContinues(flag) == ~flag

\* ManagerAfterRaise as it would be without the handler of lines 176-178.
ManagerRaiseUncaught == "exited"

\* Where the manager stands after a raise inside lines 138-174: the handler
\* of lines 176-178.
ManagerAfterRaise == "except"

\* Whether the worker thread is alive after one pass through lines 72-89:
\* an exception is caught at line 88 and the loop goes on.
WorkerAfterIteration(raises) == TRUE

\* The requests of SpecLoop: cycle_duration alone, 0 or 4.
LoopBodies ==
    { b \in ConfigBodies :
        /\ Present(b.cycle_duration) /\ ~Rejects(b.cycle_duration)
        /\ Cardinality({f \in Fields : Present(b[f])}) = 1 }

InitLoop ==
    /\ Init
    /\ BASE_LOAD = 1
    /\ MAX_LOAD = 2
    /\ CYCLE_DURATION = 4

\* Line 137.
LoopCheck ==
    /\ pc = "idle"
    /\ pc' = IF ManagerContinues(stop_event) THEN "tick" ELSE "exited"
    /\ UNCHANGED <<config, ENABLED_, memory_app, workers, stop_event, current_load_level,
                   elapsed, target, frame, response, request>>

\* Lines 138-172: one pass through the try block; e is the clock reading of
\* line 140.
LoopBody(e, rf) ==
    /\ pc = "tick"
    /\ IF ~ENABLED_
       THEN /\ pc' = "sleep"
            /\ UNCHANGED <<target, workers, current_load_level>>
       ELSE IF CalcRaises(PATTERN_MODE, CYCLE_DURATION)
       THEN /\ pc' = ManagerAfterRaise
            /\ UNCHANGED <<target, workers, current_load_level>>
       ELSE /\ target' = CalcTarget(PATTERN_MODE, e, rf)
            /\ current_load_level' = CalcLevel(PATTERN_MODE, e, rf)
            /\ workers' = Reconcile(workers, target')
            /\ pc' = "sleep"
    /\ UNCHANGED <<config, ENABLED_, memory_app, stop_event, elapsed, frame, response,
                   request>>

\* Line 174 or line 178: the sleep ends.
LoopSleep ==
    /\ pc \in {"sleep", "except"}
    /\ pc' = "idle"
    /\ UNCHANGED <<config, ENABLED_, memory_app, workers, stop_event, current_load_level,
                   elapsed, target, frame, response, request>>

\* Lines 71-89: worker i passes the test of line 71 and runs one iteration,
\* which raises or does not.
WorkerIterate(i, raises) ==
    /\ i \in 1..Len(workers)
    /\ workers[i].alive
    /\ WorkerContinues(stop_event)
    /\ workers' = [workers EXCEPT ![i].alive = WorkerAfterIteration(raises)]
    /\ UNCHANGED <<config, ENABLED_, memory_app, stop_event, current_load_level, pc,
                   elapsed, target, frame, response, request>>

\* Lines 71 and 91: worker i fails the test of line 71 and returns.
WorkerExit(i) ==
    /\ i \in 1..Len(workers)
    /\ workers[i].alive
    /\ ~WorkerContinues(stop_event)
    /\ workers' = [workers EXCEPT ![i].alive = FALSE]
    /\ UNCHANGED <<config, ENABLED_, memory_app, stop_event, current_load_level, pc,
                   elapsed, target, frame, response, request>>

\* stop_event.set(), from outside the repository.
SetStop ==
    /\ ~stop_event
    /\ stop_event' = TRUE
    /\ UNCHANGED <<config, ENABLED_, memory_app, workers, current_load_level, pc,
                   elapsed, target, frame, response, request>>

\* Most workers SpecLoop can hold: MAX_LOAD twice, the second time by an
\* iteration under way when the first ones returned.
LoopPool == 1..4

NextLoop ==
    \/ LoopCheck
    \/ \E e \in 0..MaxElapsed, rf \in RandomFactors : LoopBody(e, rf)
    \/ LoopSleep
    \/ \E i \in LoopPool, raises \in BOOLEAN : WorkerIterate(i, raises)
    \/ \E i \in LoopPool : WorkerExit(i)
    \/ SetStop
    \/ \E b \in LoopBodies : PostConfig(b)

SpecLoop ==
    /\ InitLoop
    /\ [][NextLoop]_vars
    /\ WF_vars(LoopCheck)
    /\ WF_vars(\E e \in 0..MaxElapsed, rf \in RandomFactors : LoopBody(e, rf))
    /\ WF_vars(LoopSleep)
    /\ WF_vars(\E i \in LoopPool : WorkerExit(i))

(***************************************************************************)
(* SpecMem: the memory-intensive app, 2-memory-intensive/app/main.py.  The *)
(* background_processor thread is split where another thread can run: the  *)
(* test of line 128 and the entry into process_batch are two steps, and a  *)
(* handler, run by another thread, may be handled between them.  A handler *)
(* is one step.  processed_data is kept as its number of records.          *)
(***************************************************************************)
\* Largest value the batches_processed counter takes.
MaxBatches == 3
\* Largest number of records held in processed_data.
MaxRecords == 6
\* Lines 27-28 with BATCH_SIZE=2 in the environment.
BATCH_SIZE == 2
\* The batch_size values a POST /process body gives.
ProcessSizes == {1, 3}

InitMem ==
    /\ ENABLED_memory \in BOOLEAN
    /\ KEEP_IN_MEMORY \in BOOLEAN
    /\ processed_data = 0
    /\ processing_active = FALSE
    /\ batches_processed = 0
    /\ processor_pc = "loop"
    /\ PATTERN_MODE = "wave"
    /\ BASE_LOAD = 10
    /\ MAX_LOAD = 50
    /\ CYCLE_DURATION = 120
    /\ ENABLED_ = TRUE
    /\ workers = <<>>
    /\ stop_event = FALSE
    /\ current_load_level = 0
    /\ manual_workers = BASE_LOAD
    /\ response = 0
    /\ request = NoRequest
    /\ InitFrame

\* Line 128: if ENABLED and processing_active.
ProcessorTest ==
    /\ processor_pc = "loop"
    /\ processor_pc' = IF ENABLED_memory /\ processing_active THEN "call" ELSE "sleep"
    /\ UNCHANGED <<variable_load_app, ENABLED_memory, KEEP_IN_MEMORY, processed_data,
                   processing_active, batches_processed>>

\* Line 129, the call: process_batch begins (lines 100-104).
ProcessorBeginBatch ==
    /\ processor_pc = "call"
    /\ batches_processed < MaxBatches
    /\ processed_data + BATCH_SIZE <= MaxRecords
    /\ processor_pc' = "batch"
    /\ UNCHANGED <<variable_load_app, ENABLED_memory, KEEP_IN_MEMORY, processed_data,
                   processing_active, batches_processed>>

\* Lines 106-131: the records are built, kept if KEEP_IN_MEMORY, counted.
ProcessorEndBatch ==
    /\ processor_pc = "batch"
    /\ processed_data' = IF KEEP_IN_MEMORY /\ processed_data + BATCH_SIZE <= MaxRecords
                         THEN processed_data + BATCH_SIZE ELSE processed_data
    /\ batches_processed' = batches_processed + 1
    /\ processor_pc' = "sleep"
    /\ UNCHANGED <<variable_load_app, ENABLED_memory, KEEP_IN_MEMORY, processing_active>>

\* Lines 132-139: the gauges and the sleep, then the loop again.
ProcessorSleep ==
    /\ processor_pc = "sleep"
    /\ processor_pc' = "loop"
    /\ UNCHANGED <<variable_load_app, ENABLED_memory, KEEP_IN_MEMORY, processed_data,
                   processing_active, batches_processed>>

\* Lines 227-239: POST /start.
StartProcessing ==
    /\ processing_active' = TRUE
    /\ UNCHANGED <<variable_load_app, ENABLED_memory, KEEP_IN_MEMORY, processed_data,
                   batches_processed, processor_pc>>

\* Lines 242-254: POST /stop.
StopProcessing ==
    /\ processing_active' = FALSE
    /\ UNCHANGED <<variable_load_app, ENABLED_memory, KEEP_IN_MEMORY, processed_data,
                   batches_processed, processor_pc>>

\* Lines 209-224: POST /clear.
ClearMemory ==
    /\ processed_data' = 0
    /\ UNCHANGED <<variable_load_app, ENABLED_memory, KEEP_IN_MEMORY, processing_active,
                   batches_processed, processor_pc>>

\* Lines 183-206: POST /process with batch_size n; 503 and nothing else
\* when ENABLED is false.
ProcessData(n) ==
    /\ batches_processed < MaxBatches
    /\ processed_data + n <= MaxRecords
    /\ IF ENABLED_memory
       THEN /\ processed_data' = IF KEEP_IN_MEMORY THEN processed_data + n
                                 ELSE processed_data
            /\ batches_processed' = batches_processed + 1
       ELSE UNCHANGED <<processed_data, batches_processed>>
    /\ UNCHANGED <<variable_load_app, ENABLED_memory, KEEP_IN_MEMORY, processing_active,
                   processor_pc>>

NextMem ==
    \/ ProcessorTest
    \/ ProcessorBeginBatch
    \/ ProcessorEndBatch
    \/ ProcessorSleep
    \/ StartProcessing
    \/ StopProcessing
    \/ ClearMemory
    \/ \E n \in ProcessSizes : ProcessData(n)

SpecMem == InitMem /\ [][NextMem]_vars

(***************************************************************************)
(* Properties.                                                             *)
(***************************************************************************)
\* In Spec only a manager iteration changes target, workers or the load
\* level; a handler changes none of them.
ManagerStep ==
    <<target, workers, current_load_level>>' # <<target, workers, current_load_level>>

\* C1: a manager iteration that computes target t with a workers alive
\* leaves a + max(0, t - a) workers alive (the stop flag is never set in
\* Spec).  target' is the target the iteration computed; a step that is no
\* manager iteration keeps target and the pool, with target <= a.
C1_AliveAfterTick ==
    [][AliveCount(workers') =
         AliveCount(workers) + Max(0, target' - AliveCount(workers))]_vars

\* C1 witness: one worker was alive and an iteration with target 3 started
\* two more.
C1_Witness ==
    /\ ~stop_event
    /\ target = 3
    /\ AliveCount(workers) = 3
    /\ workers[3].id = 3

\* C2: the pool starts empty, no step shortens it or replaces an entry, and
\* the alive workers never outnumber the pool.
C2_PoolGrowsOnly ==
    /\ workers = <<>>
    /\ [](AliveCount(workers) <= Len(workers))
    /\ [][/\ Len(workers') >= Len(workers)
          /\ \A i \in 1..Len(workers) : workers'[i].id = workers[i].id]_vars

\* C2 witness: the target fell to 0 and the three workers are still there.
C2_Witness ==
    /\ Len(workers) = 3
    /\ AliveCount(workers) = 3
    /\ target = 0

\* C10: every worker's identifier is greater than the identifier of every
\* worker started before it (hence different from it).  Line 150 adds the
\* loop index to a len(workers) that has already grown by it.
C10_IdsIncrease ==
    \A i, j \in 1..Len(workers) : i < j => workers[i].id < workers[j].id

\* C3 as stated: every target a computation returns lies in
\* [BASE_LOAD, MAX_LOAD], whatever the pattern and also when a request
\* changes the configuration between two reads, and the load level stays
\* in [0, 100].
C3_TargetAlwaysInRange ==
    /\ [](current_load_level >= 0 /\ current_load_level <= 100)
    /\ [][pc' = "reconcile" /\ pc # "reconcile"
            => BASE_LOAD' <= target' /\ target' <= MAX_LOAD']_vars

\* C3 as the code has it: the load level stays in [0, 100]; a wave, random
\* or low-spike target lies between b and b + (m - b2), for b and b2 the
\* first and second read of BASE_LOAD and m the read of MAX_LOAD, which is
\* [BASE_LOAD, MAX_LOAD] only when no request lands between the reads and
\* BASE_LOAD is at most MAX_LOAD; a high spike returns MAX_LOAD, an
\* unrecognised pattern BASE_LOAD and manual manual_workers, compared with
\* nothing.
C3_TargetInRangeOfReads ==
    /\ [](current_load_level >= 0 /\ current_load_level <= 100)
    /\ [][pc = "base2" /\ pc' = "reconcile" =>
            LET d == max_read - BASE_LOAD IN
            /\ base_read + (IF d < 0 THEN d ELSE 0) <= target'
            /\ target' <= base_read + (IF d > 0 THEN d ELSE 0)]_vars
    /\ [][pc = "ret_max" /\ pc' = "reconcile" => target' = MAX_LOAD]_vars
    /\ [][pc = "ret_base" /\ pc' = "reconcile" => target' = BASE_LOAD]_vars
    /\ [][pc = "call" /\ pc' = "reconcile" => target' = manual_workers]_vars

\* C3 witness: a request set BASE_LOAD to 0 between the two reads of a wave
\* computation at a quarter cycle; the target is 3 with MAX_LOAD 2.
C3_Witness ==
    /\ pc = "reconcile"
    /\ mode = "wave"
    /\ base_read = 1
    /\ max_read = 2
    /\ BASE_LOAD = 0
    /\ MAX_LOAD = 2
    /\ target = 3
    /\ current_load_level = 100

\* position < 0.1 or 0.5 <= position < 0.6, for position = (e % c) / c.
InSpikeWindow(e, c) ==
    LET a == e % c IN 10 * a < c \/ (2 * a >= c /\ 10 * a < 6 * c)

\* x * 0.2 rounded to the nearest integer, halves away from zero.
RoundFifth(x) == TruncDiv(2 * x + (IF x >= 0 THEN 5 ELSE -5), 10)

\* C4 as stated: in spike the target is MAX_LOAD exactly when the phase is
\* in the window, and BASE_LOAD + round(0.2 * (MAX_LOAD - BASE_LOAD))
\* otherwise.
C4_SpikeRounds ==
    pc = "returned" /\ mode = "spike" =>
        /\ (target = MAX_LOAD) <=> InSpikeWindow(elapsed, CYCLE_DURATION)
        /\ ~InSpikeWindow(elapsed, CYCLE_DURATION)
             => target = BASE_LOAD + RoundFifth(MAX_LOAD - BASE_LOAD)

\* C4 as the code has it: in the window the target is MAX_LOAD and the level
\* 100; outside it the target is BASE_LOAD plus 0.2 * (MAX_LOAD - BASE_LOAD)
\* truncated toward zero and the level 20; the target tells the window only
\* when MAX_LOAD differs from BASE_LOAD.
C4_SpikeTruncates ==
    pc = "returned" /\ mode = "spike" =>
        /\ InSpikeWindow(elapsed, CYCLE_DURATION)
             => target = MAX_LOAD /\ current_load_level = 100
        /\ ~InSpikeWindow(elapsed, CYCLE_DURATION)
             => /\ target = BASE_LOAD + TruncDiv(MAX_LOAD - BASE_LOAD, 5)
                /\ current_load_level = 20
        /\ MAX_LOAD # BASE_LOAD
             => ((target = MAX_LOAD) <=> InSpikeWindow(elapsed, CYCLE_DURATION))

\* C4 witness: outside the window with BASE_LOAD 10 and MAX_LOAD 13 the
\* target is 10 (0.6 truncated), where rounding would give 11.
C4_Witness ==
    /\ pc = "returned"
    /\ mode = "spike"
    /\ BASE_LOAD = 10
    /\ MAX_LOAD = 13
    /\ CYCLE_DURATION = 20
    /\ elapsed = 2
    /\ target = 10

\* C5: POST /pattern/<name> with a name outside wave, spike, random, manual
\* answers 400 and changes no configuration field; with a name among them it
\* answers 200 and PATTERN_MODE is that name.
C5_PatternValidated ==
    [][request'.endpoint = "pattern" =>
         IF request'.name \in {"wave", "spike", "random", "manual"}
         THEN response' = 200 /\ PATTERN_MODE' = request'.name
         ELSE response' = 400 /\ UNCHANGED config]_vars

\* C5 witness: "burst" was refused while the pattern was spike.
C5_Witness ==
    /\ request = PatternRequest("burst")
    /\ response = 400
    /\ PATTERN_MODE = "spike"

\* The configuration global a field of the /config body names.
ConfigField(f) ==
    CASE f = "pattern_mode" -> PATTERN_MODE
      [] f = "base_load" -> BASE_LOAD
      [] f = "max_load" -> MAX_LOAD
      [] f = "cycle_duration" -> CYCLE_DURATION
      [] f = "workers" -> manual_workers

\* C6: in manual the computed target is manual_workers, whatever the elapsed
\* time, BASE_LOAD, MAX_LOAD and CYCLE_DURATION, and the iteration leaves
\* manual_workers alone; manual_workers changes only in a request that is
\* answered 200, to the workers value posted.
C6_ManualTargetHeld ==
    [][/\ ManagerStep /\ PATTERN_MODE = "manual"
           => target' = manual_workers /\ manual_workers' = manual_workers
       /\ manual_workers' # manual_workers
           => response' = 200 /\ manual_workers' \in WorkerVals /\ ~ManagerStep]_vars

\* C6 witness: workers 3 was posted and a manual iteration returned 3 with
\* MAX_LOAD 0 and CYCLE_DURATION 0.
C6_Witness ==
    /\ PATTERN_MODE = "manual"
    /\ manual_workers = 3
    /\ target = 3
    /\ AliveCount(workers) = 3
    /\ MAX_LOAD = 0
    /\ CYCLE_DURATION = 0

\* C7: a POST /config answered 200 changes no configuration global whose
\* field is absent from the body, and leaves ENABLED, the pool and the stop
\* flag alone.
C7_ConfigFrame ==
    [][request'.endpoint = "config" /\ response' = 200 =>
         /\ \A f \in Fields :
                ~Present(request'.body[f]) => ConfigField(f)' = ConfigField(f)
         /\ UNCHANGED <<ENABLED_, memory_app, workers, stop_event>>]_vars

\* C7 witness: {"base_load": "1"} was answered 200 with two workers in the
\* pool, and manual_workers is still 3.
C7_Witness ==
    /\ request = ConfigRequest([EmptyBody EXCEPT !.base_load = JNumStr(1)])
    /\ response = 200
    /\ BASE_LOAD = 1
    /\ manual_workers = 3
    /\ Len(workers) = 2
    /\ ENABLED_

\* C8: in wave at a quarter cycle the target is MAX_LOAD and the level 100;
\* with BASE_LOAD 10, MAX_LOAD 50, CYCLE_DURATION 120 that is elapsed 30.
C8_WavePeak ==
    pc = "returned" /\ mode = "wave" /\ 4 * (elapsed % CYCLE_DURATION) = CYCLE_DURATION
        => target = MAX_LOAD /\ current_load_level = 100

\* C8 witness: the defaults at elapsed 30.
C8_Witness ==
    /\ pc = "returned"
    /\ mode = "wave"
    /\ BASE_LOAD = 10
    /\ MAX_LOAD = 50
    /\ CYCLE_DURATION = 120
    /\ elapsed = 30
    /\ target = 50
    /\ current_load_level = 100

\* Two wave computations one second apart in the same cycle: the target
\* does not fall while the phase stays in [0, 0.25] or in [0.75, 1), does
\* not rise while it stays in [0.25, 0.75], and is in [BASE_LOAD, MAX_LOAD].
WaveShape ==
    LET a == elapsed % CYCLE_DURATION
        b == elapsed' % CYCLE_DURATION
    IN  /\ a < b /\ 4 * b <= CYCLE_DURATION => target <= target'
        /\ a < b /\ 4 * a >= 3 * CYCLE_DURATION => target <= target'
        /\ a < b /\ 4 * a >= CYCLE_DURATION /\ 4 * b <= 3 * CYCLE_DURATION
             => target >= target'
        /\ BASE_LOAD <= target' /\ target' <= MAX_LOAD

\* C9 as stated: the wave target has that shape for every BASE_LOAD,
\* MAX_LOAD and CYCLE_DURATION.
C9_WaveShapeAlways ==
    [][pc = "returned" /\ pc' = "returned" /\ mode = "wave" => WaveShape]_vars

\* C9 as the code has it: the wave target has that shape when BASE_LOAD is
\* at most MAX_LOAD.
C9_WaveShapeOrdered ==
    [][/\ pc = "returned" /\ pc' = "returned" /\ mode = "wave"
       /\ BASE_LOAD <= MAX_LOAD
       => WaveShape]_vars

\* C9 witness: the defaults at half a cycle, on the falling side.
C9_Witness ==
    /\ pc = "returned"
    /\ mode = "wave"
    /\ BASE_LOAD = 10
    /\ MAX_LOAD = 50
    /\ CYCLE_DURATION = 120
    /\ elapsed = 60
    /\ target = 30

C14_LevelKeptOutsidePatterns ==
    [][ManagerStep /\ PATTERN_MODE \notin {"wave", "spike", "random"} =>
         /\ current_load_level' = current_load_level
         /\ PATTERN_MODE # "manual" => target' = BASE_LOAD]_vars

\* C14 witness: the level was 100 with two workers when POST /config made
\* the pattern "burst"; the next iteration returned BASE_LOAD 1 and the level
\* is still 100.
C14_Witness ==
    /\ PATTERN_MODE = "burst"
    /\ response = 200
    /\ BASE_LOAD = 1
    /\ target = 1
    /\ current_load_level = 100
    /\ AliveCount(workers) = 2

\* The POST /config body b assigns field number i of FieldOrder: the field
\* is present and no numeric field at or before it has a value int() rejects.
AssignedBeforeFailure(b, i) ==
    /\ Present(b[FieldOrder[i]])
    /\ \A j \in 2..i : ~(Present(b[FieldOrder[j]]) /\ Rejects(b[FieldOrder[j]]))

\* C15: POST /config applies pattern_mode, base_load, max_load,
\* cycle_duration, workers in that order; when a numeric value cannot be
\* coerced the request fails (500), the present fields before it hold their
\* new values, and that field and all later ones hold their old values.
C15_ConfigOrderAndPartialUpdate ==
    [][request'.endpoint = "config" =>
         LET b == request'.body IN
         /\ FieldOrder = <<"pattern_mode", "base_load", "max_load",
                           "cycle_duration", "workers">>
         /\ response' = IF \E i \in 2..5 : /\ Present(b[FieldOrder[i]])
                                           /\ Rejects(b[FieldOrder[i]])
                         THEN 500 ELSE 200
         /\ \A i \in 1..5 :
               ConfigField(FieldOrder[i])' =
                  IF AssignedBeforeFailure(b, i)
                  THEN (IF i = 1 THEN b[FieldOrder[i]][2] ELSE IntOf(b[FieldOrder[i]]))
                  ELSE ConfigField(FieldOrder[i])]_vars

\* C15 witness: {"base_load": 0, "max_load": "x"} was answered 500;
\* BASE_LOAD is 0 and MAX_LOAD still 2.
C15_Witness ==
    /\ request = ConfigRequest([EmptyBody EXCEPT !.base_load = JInt(0),
                                                 !.max_load = JText])
    /\ response = 500
    /\ BASE_LOAD = 0
    /\ MAX_LOAD = 2
    /\ manual_workers = 1

\* C16: no step changes ENABLED, and while it is false the pool is empty,
\* no target has been computed and the load level is 0, whatever requests
\* were handled.
C16_DisabledDoesNothing ==
    /\ [][ENABLED_' = ENABLED_]_vars
    /\ [](~ENABLED_ => workers = <<>> /\ target = 0 /\ current_load_level = 0)

\* C16 witness: ENABLED is false, requests made the pattern manual with
\* workers 3, and the pool is empty.
C16_Witness ==
    /\ ~ENABLED_
    /\ response = 200
    /\ PATTERN_MODE = "manual"
    /\ manual_workers = 3
    /\ workers = <<>>
    /\ current_load_level = 0

\* C17: the background processor begins a batch only while ENABLED and
\* processing_active are both true; in particular none begins before the
\* first POST /start, nor after a POST /stop until the next POST /start
\* (processing_active is false exactly from a /stop, or startup, to the next
\* /start).
C17_BatchBeginsOnlyWhileActive ==
    [][processor_pc = "call" /\ processor_pc' = "batch"
         => ENABLED_memory /\ processing_active]_vars

\* C12: while the stop flag is unset the manager has not left its loop and
\* every started worker is alive, whatever raised inside an iteration; and
\* after an exception in a manager iteration the manager comes to a further
\* iteration unless the flag is set meanwhile.
C12_ExceptionsDoNotEndLoops ==
    /\ [](~stop_event =>
            /\ pc # "exited"
            /\ \A i \in 1..Len(workers) : workers[i].alive)
    /\ (pc = "except") ~> (pc = "tick" \/ stop_event)

\* C12 witness: POST /config set cycle_duration to 0, the next manager
\* iteration raised and is in its handler, and both workers are alive.
C12_Witness ==
    /\ pc = "except"
    /\ CYCLE_DURATION = 0
    /\ response = 200
    /\ AliveCount(workers) = 2
    /\ ~stop_event

\* C13: once the stop flag is set the manager leaves its loop and every
\* worker returns, so eventually no worker is alive; the manager enters no
\* iteration from a test made with the flag set and starts no worker after
\* leaving; and while the flag is unset every started worker is alive.
C13_StopEndsEverything ==
    /\ stop_event ~> (pc = "exited" /\ AliveCount(workers) = 0)
    /\ [][stop_event /\ pc \in {"idle", "exited"}
            => pc' # "tick" /\ Len(workers') = Len(workers)]_vars
    /\ [](~stop_event => AliveCount(workers) = Len(workers))

\* C13 witness: the flag is set, the manager has left its loop and the two
\* workers it had started have returned.
C13_Witness ==
    /\ stop_event
    /\ pc = "exited"
    /\ Len(workers) = 2
    /\ AliveCount(workers) = 0

====
